---- MODULE Spec2Model ----
(***************************************************************************)
(* A model of the ros2_aruco node: ArucoNode (aruco_node.py) spun by a     *)
(* MultiThreadedExecutor with two threads (main.py).                       *)
(*                                                                         *)
(* The node owns one calibration subscription (info_sub), image            *)
(* subscriptions created by start() and destroyed by stop(), two Trigger   *)
(* services and two publishers.  Every subscription and service is created *)
(* without a callback_group argument, so all of them belong to the node's  *)
(* default callback group; the executor asks that group before it starts a *)
(* callback (can_execute).  Each callback is modelled statement by         *)
(* statement, on the worker thread that runs it.                           *)
(***************************************************************************)
EXTENDS Integers, Sequences, FiniteSets, TLC

\* ---------------------------------------------------------------- bounds
MaxCalib   == 2    \* calibration messages the camera driver publishes
MaxFrames  == 2    \* image frames the camera publishes
MaxMarkers == 2    \* markers the detector reports in one frame
MaxSubs    == 2    \* image subscriptions ever created

\* ------------------------------------------------------ program constants
NumThreads        == 2      \* main.py: MultiThreadedExecutor(num_threads=2)
QueueDepth        == 10     \* history depth of every subscription
DefaultMarkerSize == 625    \* marker_size default 0.0625 m, in 0.1 mm

Workers == 1..NumThreads

\* Python's None, and a present value x; Some(x) never equals None.
None    == <<>>
Some(x) == <<x>>
Get(o)  == o[1]

\* ------------------------------------------------------------ input sets
\* sensor_msgs/CameraInfo: k is float64[9] (row-major), d is float64[].
CalA == [k |-> <<500, 0, 320, 0, 500, 240, 0, 0, 1>>,
         d |-> <<1, 2, 0, 0, 0>>, frame_id |-> "camera_a"]
CalB == [k |-> <<600, 0, 300, 0, 610, 200, 0, 0, 1>>,
         d |-> <<>>, frame_id |-> "camera_b"]
CalMsgs == {CalA, CalB}

\* What the detector sees of one marker: its id and the geometry of its
\* corner set.  A "malformed" corner set makes the pose solve raise.
MarkerIds == {7, 8}
Geoms     == {"good", "malformed"}
Markers   == [id : MarkerIds, geom : Geoms]
\* An image is described by the markers visible in it, in detection order.
Images       == UNION {[1..n -> Markers] : n \in 0..MaxMarkers}
\* The frames of the activation scenarios: no marker, or marker 7 alone.
PlainImages  == {im \in Images : Len(im) <= 1 /\ \A i \in 1..Len(im) : im[i].id = 7}

\* Size tables the constructor can end with (keys converted by int()):
\* no override, an override for marker 7 that differs from the default, and
\* an override for marker 7 that repeats the default.
MarkerMaps == {<<>>} \cup {[i \in {7} |-> s] : s \in {1000, DefaultMarkerSize}}
CameraFrames == {"", "map"}

\* ----------------------------------------------- construction parameters
\* The marker_map parameter as __init__ reads it: left at its declared
\* default (the dict {}), or a text.  A text is described by what
\* json.loads makes of it: not JSON, a JSON value that is no object, or an
\* object given by its entries (key text and size) in the order written.
MapKeys    == {"7", "08", "x"}
MapEntries == [key : MapKeys, size : {1000, DefaultMarkerSize}]
MapObjects == UNION {[1..n -> MapEntries] : n \in 0..2}
MarkerMapParams ==
    {[kind |-> "unset", entries |-> <<>>],
     [kind |-> "not_json", entries |-> <<>>],
     [kind |-> "json_array", entries |-> <<>>]}
    \cup {[kind |-> "json_object", entries |-> o] : o \in MapObjects}

\* The aruco_dictionary_id parameter: the default, a name cv2.aruco does
\* not have, and a name of cv2.aruco that is no dictionary id.
DictionaryNames == {"DICT_5X5_250", "DICT_BOGUS", "DetectorParameters"}

\* int(k) for the key texts above: a decimal literal converts (leading
\* zeros allowed), anything else raises ValueError.
IsIntText(k) == k \in {"7", "08"}
IntOf(k) == IF k = "7" THEN 7 ELSE 8

VARIABLES
    \* --- configuration read by __init__
    marker_size, marker_map, camera_frame,
    boot,          \* [phase, marker_map_param, dictionary, errors]: construction
    \* --- ArucoNode fields
    active, img_sub, info_msg, intrinsic_mat, distortion,
    \* --- middleware objects
    info_sub,      \* [live, queue]: the calibration subscription
    subs,          \* sequence of [live, queue]: image subscriptions by identity
    poses_pub,     \* [count, last]: what poses_pub has published
    markers_pub,   \* [count, last]: what markers_pub has published
    warned,        \* number of warnings the node's logger has emitted
    \* --- executor
    executor,      \* "spinning", "raising" (a callback raised), "dead"
    pc,            \* per worker: the statement it is at
    frame,         \* per worker: the locals of the callback it runs
    \* --- environment
    camera,        \* [frames, calib, scene]: what the camera may still send
    stamp,         \* stamp of the last frame the camera published
    \* --- bookkeeping for the properties
    calib_sent,    \* calibration messages published so far, in order
    writes,        \* number of assignments to each calibration field
    arrived_idle,  \* stamps of the frames published while the node was Idle
    ctl_hist       \* the last two completed control calls with their outcome

cfg_vars  == <<marker_size, marker_map, camera_frame, boot>>
node_vars == <<active, img_sub, info_msg, intrinsic_mat, distortion>>
mw_vars   == <<info_sub, subs, poses_pub, markers_pub, warned>>
exec_vars == <<executor, pc, frame>>
env_vars  == <<camera, stamp>>
aux_vars  == <<calib_sent, writes, arrived_idle, ctl_hist>>
vars == <<cfg_vars, node_vars, mw_vars, exec_vars, env_vars, aux_vars>>

\* ------------------------------------------------------------- helpers
\* A subscription: alive until destroy_subscription, with its receive queue.
NewSub == [live |-> TRUE, queue |-> <<>>]
DeadSub == [live |-> FALSE, queue |-> <<>>]

\* KEEP_LAST history: a full queue drops its oldest message.
Push(q, m) == IF Len(q) < QueueDepth THEN Append(q, m) ELSE Append(Tail(q), m)

Deliver(sub, m) == IF sub.live THEN [sub EXCEPT !.queue = Push(@, m)] ELSE sub

LiveSubs == {s \in 1..Len(subs) : subs[s].live}

\* Locals of a callback; "handler" names the callback the worker is running.
NoFrame == [handler |-> "none", msg |-> None, frame_id |-> "", corners |-> <<>>,
            marker_ids |-> None, i |-> 0, poses |-> <<>>, ids |-> <<>>,
            outcome |-> "none"]

Running(w, h) == frame[w].handler = h


\* np.reshape(np.array(k), (3, 3)): nine values, row-major, to three rows.
Reshape3x3(k) == [r \in 1..3 |-> [c \in 1..3 |-> k[3 * (r - 1) + c]]]

\* The last two completed control calls, each with the activation state it
\* left: the flag, the subscription img_sub refers to, the live ones.
Completed(op, a, sub, sb) ==
    <<ctl_hist[2],
      [op |-> op, active |-> a, img_sub |-> sub,
       live |-> {s \in 1..Len(sb) : sb[s].live}]>>

\* The node is Idle: before the first start(), or after a stop() has
\* returned and before the next start() begins.
Idle == ctl_hist[2].op \in {"init", "stop"} /\ \A w \in Workers : ~Running(w, "start")

\* ---------------------------------------------------------- construction
\* {int(k): v for k, v in d.items()}: the keys converted, a later entry
\* replacing an earlier one with the same converted key.
ConvertKeys(entries) ==
    LET keys == {IntOf(entries[n].key) : n \in 1..Len(entries)}
        last(i) == CHOOSE n \in 1..Len(entries) :
                      /\ IntOf(entries[n].key) = i
                      /\ \A m \in n + 1..Len(entries) : IntOf(entries[m].key) # i
    IN  [i \in keys |-> entries[last(i)].size]

\* Lines 68-75 and 114-126: what reading the marker_map parameter ends in.
\* Only json.JSONDecodeError is caught: the dict default (TypeError), a
\* JSON value without items() (AttributeError) and a key int() rejects
\* (ValueError) leave __init__ by an exception.
ParseMarkerMap(param) ==
    CASE param.kind = "unset" ->
            [raised |-> TRUE, errors |-> 0, map |-> <<>>]
      [] param.kind = "not_json" ->
            [raised |-> FALSE, errors |-> 1, map |-> <<>>]
      [] param.kind = "json_array" ->
            [raised |-> TRUE, errors |-> 0, map |-> <<>>]
      [] param.kind = "json_object" ->
            IF \A n \in 1..Len(param.entries) : IsIntText(param.entries[n].key)
            THEN [raised |-> FALSE, errors |-> 0, map |-> ConvertKeys(param.entries)]
            ELSE [raised |-> TRUE, errors |-> 0, map |-> <<>>]

\* Lines 142-152 and 193: the name is looked up on cv2.aruco; a missing
\* name or a value of another type is reported with two error lines and
\* not re-raised, and getPredefinedDictionary(dictionary_id) then raises:
\* dictionary_id is unbound or no dictionary id.
DictionaryKnown(name) == name = "DICT_5X5_250"
DictionaryErrors(name) == IF DictionaryKnown(name) THEN 0 ELSE 2
DictionaryRaises(name) == ~DictionaryKnown(name)

\* A marker_map text that parses to table m without an error.
ParamFor(m) ==
    CHOOSE p \in MarkerMapParams :
        /\ ~ParseMarkerMap(p).raised /\ ParseMarkerMap(p).errors = 0
        /\ ParseMarkerMap(p).map = m
        /\ \A q \in MarkerMapParams :
              (~ParseMarkerMap(q).raised /\ ParseMarkerMap(q).errors = 0
                 /\ ParseMarkerMap(q).map = m) => Len(q.entries) >= Len(p.entries)

\* ---------------------------------------------------------------- Init
\* The state ArucoNode.__init__ leaves, for each configuration it accepts.
InitNode ==
    /\ marker_size = DefaultMarkerSize
    /\ marker_map \in MarkerMaps
    /\ camera_frame \in CameraFrames
    /\ boot = [phase |-> "running",
               marker_map_param |-> ParamFor(marker_map),
               dictionary |-> "DICT_5X5_250",
               errors |-> 0]
    /\ active = FALSE
    /\ img_sub = 0
    /\ info_msg = None /\ intrinsic_mat = None /\ distortion = None
    /\ info_sub = NewSub
    /\ subs = <<>>
    /\ poses_pub = [count |-> 0, last |-> None]
    /\ markers_pub = [count |-> 0, last |-> None]
    /\ warned = 0
    /\ executor = "spinning"
    /\ pc = [w \in Workers |-> "idle"]
    /\ frame = [w \in Workers |-> NoFrame]
    /\ stamp = 0
    /\ calib_sent = <<>>
    /\ writes = [info_msg |-> 0, intrinsic_mat |-> 0, distortion |-> 0]
    /\ arrived_idle = {}
    /\ ctl_hist = <<[op |-> "none", active |-> FALSE, img_sub |-> 0, live |-> {}],
                    [op |-> "init", active |-> FALSE, img_sub |-> 0, live |-> {}]>>

\* Two frames with at most one marker each, under one configuration: the
\* specification for the activation and calibration behaviour.
Init ==
    /\ InitNode
    /\ marker_map = [i \in {7} |-> 1000]
    /\ camera_frame = ""
    /\ camera = [frames |-> MaxFrames, calib |-> MaxCalib, scene |-> PlainImages]

\* ---------------------------------------------------------- environment
\* The camera driver publishes a calibration message on camera_info_topic.
InfoArrives(c) ==
    /\ boot.phase = "running"
    /\ camera.calib > 0
    /\ camera' = [camera EXCEPT !.calib = @ - 1]
    /\ calib_sent' = Append(calib_sent, c)
    /\ info_sub' = Deliver(info_sub, c)
    /\ UNCHANGED <<cfg_vars, node_vars, subs, poses_pub, markers_pub, warned, exec_vars,
                   stamp, writes, arrived_idle, ctl_hist>>

\* The camera publishes a frame on image_topic: every live image
\* subscription receives it; with none, nobody does.
ImageArrives(im) ==
    /\ boot.phase = "running"
    /\ camera.frames > 0
    /\ camera' = [camera EXCEPT !.frames = @ - 1]
    /\ stamp' = stamp + 1
    /\ subs' = [s \in 1..Len(subs) |->
                  Deliver(subs[s], [stamp |-> stamp + 1, image |-> im])]
    /\ arrived_idle' = IF Idle THEN arrived_idle \cup {stamp + 1} ELSE arrived_idle
    /\ UNCHANGED <<cfg_vars, node_vars, info_sub, poses_pub, markers_pub,
                   warned, exec_vars, calib_sent, writes, ctl_hist>>

\* ------------------------------------------------------------- executor
\* A reentrant callback group: callbacks may run side by side.
can_execute_reentrant(w) == TRUE

\* MutuallyExclusiveCallbackGroup.can_execute: every entity of the node is
\* in the default group, which admits one callback at a time.
can_execute(w) == \A v \in Workers : pc[v] = "idle"

Ready(w) ==
    /\ boot.phase = "running"
    /\ executor # "dead" /\ pc[w] = "idle" /\ can_execute(w)

Enter(w, h, p, m) ==
    /\ pc' = [pc EXCEPT ![w] = p]
    /\ frame' = [frame EXCEPT ![w] = [NoFrame EXCEPT !.handler = h, !.msg = m,
                                                      !.outcome = "run"]]

Goto(w, p) == pc' = [pc EXCEPT ![w] = p]

\* A message waits on info_sub: a worker takes it and enters info_callback.
BeginInfo(w) ==
    /\ Ready(w)
    /\ info_sub.live /\ info_sub.queue # <<>>
    /\ info_sub' = [info_sub EXCEPT !.queue = Tail(@)]
    /\ Enter(w, "info", "info_store", Some(Head(info_sub.queue)))
    /\ UNCHANGED <<cfg_vars, node_vars, subs, poses_pub, markers_pub, warned, executor,
                   env_vars, aux_vars>>

\* A frame waits on a live image subscription: image_callback is entered.
BeginImage(w, s) ==
    /\ Ready(w)
    /\ s \in LiveSubs /\ subs[s].queue # <<>>
    /\ subs' = [subs EXCEPT ![s].queue = Tail(@)]
    /\ Enter(w, "image", "img_check", Some(Head(subs[s].queue)))
    /\ UNCHANGED <<cfg_vars, node_vars, info_sub, poses_pub, markers_pub,
                   warned, executor, env_vars, aux_vars>>

\* A client calls aruco/start: start_cb, which calls start().
BeginStart(w) ==
    /\ Ready(w)
    /\ Len(subs) + Cardinality({v \in Workers : Running(v, "start")}) < MaxSubs
    /\ Enter(w, "start", "start_check", None)
    /\ UNCHANGED <<cfg_vars, node_vars, mw_vars, executor, env_vars, aux_vars>>

\* A client calls aruco/stop: stop_cb, which calls stop().
BeginStop(w) ==
    /\ Ready(w)
    /\ Enter(w, "stop", "stop_deactivate", None)
    /\ UNCHANGED <<cfg_vars, node_vars, mw_vars, executor, env_vars, aux_vars>>

\* The callback has returned (or raised): the group is released.
EndExecution(w) ==
    /\ pc[w] = "ret"
    /\ pc' = [pc EXCEPT ![w] = "idle"]
    /\ frame' = [frame EXCEPT ![w] = NoFrame]
    /\ UNCHANGED <<cfg_vars, node_vars, mw_vars, executor, env_vars, aux_vars>>

\* executor.spin() re-raises the exception of a callback: main() ends.
SpinRaise ==
    /\ executor = "raising"
    /\ executor' = "dead"
    /\ UNCHANGED <<cfg_vars, node_vars, mw_vars, pc, frame, env_vars, aux_vars>>

\* -------------------------------------------------------- info_callback
\* self.info_msg = info_msg
InfoStore(w) ==
    /\ pc[w] = "info_store"
    /\ info_msg' = frame[w].msg
    /\ writes' = [writes EXCEPT !.info_msg = @ + 1]
    /\ Goto(w, "info_intrinsic")
    /\ UNCHANGED <<cfg_vars, active, img_sub, intrinsic_mat, distortion, mw_vars,
                   executor, frame, env_vars, calib_sent, arrived_idle, ctl_hist>>

\* self.intrinsic_mat = np.reshape(np.array(self.info_msg.k), (3, 3))
InfoIntrinsic(w) ==
    /\ pc[w] = "info_intrinsic"
    /\ intrinsic_mat' = Some(Reshape3x3(Get(info_msg).k))
    /\ writes' = [writes EXCEPT !.intrinsic_mat = @ + 1]
    /\ Goto(w, "info_distortion")
    /\ UNCHANGED <<cfg_vars, active, img_sub, info_msg, distortion, mw_vars,
                   executor, frame, env_vars, calib_sent, arrived_idle, ctl_hist>>

\* self.distortion = np.array(self.info_msg.d)
InfoDistortion(w) ==
    /\ pc[w] = "info_distortion"
    /\ distortion' = Some(Get(info_msg).d)
    /\ writes' = [writes EXCEPT !.distortion = @ + 1]
    /\ Goto(w, "info_destroy")
    /\ UNCHANGED <<cfg_vars, active, img_sub, info_msg, intrinsic_mat, mw_vars,
                   executor, frame, env_vars, calib_sent, arrived_idle, ctl_hist>>

\* info_callback without its last statement: info_sub stays subscribed.
InfoDestroy_kept(w) ==
    /\ pc[w] = "info_destroy"
    /\ Goto(w, "ret")
    /\ UNCHANGED <<cfg_vars, node_vars, mw_vars, executor, frame, env_vars,
                   aux_vars>>

\* info_callback that destroys the image subscription in place of its own.
InfoDestroy_img_sub(w) ==
    /\ pc[w] = "info_destroy"
    /\ subs' = IF img_sub # 0 THEN [subs EXCEPT ![img_sub] = DeadSub] ELSE subs
    /\ Goto(w, "ret")
    /\ UNCHANGED <<cfg_vars, node_vars, info_sub, poses_pub, markers_pub, warned,
                   executor, frame, env_vars, aux_vars>>

\* self.destroy_subscription(self.info_sub): its queued messages go with it.
InfoDestroy(w) ==
    /\ pc[w] = "info_destroy"
    /\ info_sub' = DeadSub
    /\ Goto(w, "ret")
    /\ UNCHANGED <<cfg_vars, node_vars, subs, poses_pub, markers_pub, warned, executor,
                   frame, env_vars, aux_vars>>

\* ---------------------------------------------------------------- start
\* start() without the check of the active flag.
StartCheck_unguarded(w) ==
    /\ pc[w] = "start_check"
    /\ Goto(w, "start_subscribe")
    /\ UNCHANGED <<cfg_vars, node_vars, mw_vars, executor, frame, env_vars,
                   aux_vars>>

\* if (self.active): return True
StartCheck(w) ==
    /\ pc[w] = "start_check"
    /\ IF active
       THEN /\ Goto(w, "ret")
            /\ ctl_hist' = Completed("start", active, img_sub, subs)
       ELSE /\ Goto(w, "start_subscribe")
            /\ UNCHANGED ctl_hist
    /\ UNCHANGED <<cfg_vars, node_vars, mw_vars, executor, frame, env_vars,
                   calib_sent, writes, arrived_idle>>

\* self.img_sub = self.create_subscription(Image, image_topic, ...)
StartSubscribe(w) ==
    /\ pc[w] = "start_subscribe"
    /\ subs' = Append(subs, NewSub)
    /\ img_sub' = Len(subs) + 1
    /\ Goto(w, "start_activate")
    /\ UNCHANGED <<cfg_vars, active, info_msg, intrinsic_mat, distortion,
                   info_sub, poses_pub, markers_pub, warned, executor, frame, env_vars,
                   aux_vars>>

\* self.active = True; return True
StartActivate(w) ==
    /\ pc[w] = "start_activate"
    /\ active' = TRUE
    /\ ctl_hist' = Completed("start", TRUE, img_sub, subs)
    /\ Goto(w, "ret")
    /\ UNCHANGED <<cfg_vars, img_sub, info_msg, intrinsic_mat, distortion,
                   mw_vars, executor, frame, env_vars, calib_sent, writes,
                   arrived_idle>>

\* ----------------------------------------------------------------- stop
\* self.active = False
StopDeactivate(w) ==
    /\ pc[w] = "stop_deactivate"
    /\ active' = FALSE
    /\ Goto(w, "stop_destroy")
    /\ UNCHANGED <<cfg_vars, img_sub, info_msg, intrinsic_mat, distortion,
                   mw_vars, executor, frame, env_vars, aux_vars>>

\* stop() that clears the flag and leaves the subscription in place.
StopDestroy_leak(w) ==
    /\ pc[w] = "stop_destroy"
    /\ ctl_hist' = Completed("stop", active, img_sub, subs)
    /\ Goto(w, "ret")
    /\ UNCHANGED <<cfg_vars, node_vars, mw_vars, executor, frame, env_vars,
                   calib_sent, writes, arrived_idle>>

\* if (self.img_sub): self.destroy_subscription(self.img_sub); return True
\* img_sub keeps referring to the destroyed subscription; destroying it
\* again finds it no longer among the node's subscriptions and does nothing.
StopDestroy(w) ==
    /\ pc[w] = "stop_destroy"
    /\ subs' = IF img_sub # 0 THEN [subs EXCEPT ![img_sub] = DeadSub] ELSE subs
    /\ ctl_hist' = Completed("stop", active, img_sub, subs')
    /\ Goto(w, "ret")
    /\ UNCHANGED <<cfg_vars, node_vars, info_sub, poses_pub, markers_pub,
                   warned, executor, frame, env_vars, calib_sent, writes, arrived_idle>>

\* ------------------------------------------------------- image_callback
\* cv2.aruco.detectMarkers: the corner sets and the ids, in parallel; the
\* ids are None when no marker is found.  Rejected candidates are not used.
DetectCorners(im) == [i \in 1..Len(im) |-> [at |-> i, geom |-> im[i].geom]]
DetectIds(im) == IF Len(im) = 0 THEN None ELSE Some([i \in 1..Len(im) |-> im[i].id])

\* A resolver that forgets the override table.
get_marker_size_default(marker_id) == marker_size

\* self.marker_map.get(marker_id, self.marker_size)
get_marker_size(marker_id) ==
    IF marker_id \in DOMAIN marker_map THEN marker_map[marker_id] ELSE marker_size

\* estimatePoseSingleMarkers raises on a malformed corner set and on a
\* missing camera matrix or distortion vector.
EstimateRaises(corner, K, D) == corner.geom = "malformed" \/ K = None \/ D = None

\* The pose of one marker: tvecs and the quaternion of rvecs, both decided
\* by the corner set, the marker size and the calibration.
EstimatePose(corner, size, K, D) ==
    [corners |-> corner, size |-> size, k |-> Get(K), d |-> Get(D)]

\* image_callback that warns about the missing calibration and goes on.
ImgCheck_fallthrough(w) ==
    /\ pc[w] = "img_check"
    /\ warned' = IF info_msg = None THEN warned + 1 ELSE warned
    /\ Goto(w, "img_header")
    /\ UNCHANGED <<cfg_vars, node_vars, info_sub, subs, poses_pub, markers_pub,
                   executor, frame, env_vars, aux_vars>>

\* if self.info_msg is None: warn and return
ImgCheck(w) ==
    /\ pc[w] = "img_check"
    /\ IF info_msg = None
       THEN /\ Goto(w, "ret")
            /\ frame' = [frame EXCEPT ![w].outcome = "skipped"]
            /\ warned' = warned + 1
       ELSE /\ Goto(w, "img_header")
            /\ UNCHANGED <<frame, warned>>
    /\ UNCHANGED <<cfg_vars, node_vars, info_sub, subs, poses_pub, markers_pub,
                   executor, env_vars, aux_vars>>

\* Headers that always carry the calibration's frame, whatever camera_frame.
ImgHeader_info_frame(w) ==
    /\ pc[w] = "img_header"
    /\ IF info_msg = None
       THEN /\ frame' = [frame EXCEPT ![w].outcome = "raised"]
            /\ executor' = IF executor = "dead" THEN "dead" ELSE "raising"
            /\ Goto(w, "ret")
       ELSE /\ frame' = [frame EXCEPT ![w].frame_id = Get(info_msg).frame_id]
            /\ Goto(w, "img_detect")
            /\ UNCHANGED executor
    /\ UNCHANGED <<cfg_vars, node_vars, mw_vars, env_vars, aux_vars>>

\* header.frame_id of both messages: camera_frame, or the calibration's
\* frame when camera_frame is empty; header.stamp is the frame's stamp.
\* Reading header.frame_id of a missing info_msg raises AttributeError.
ImgHeader(w) ==
    /\ pc[w] = "img_header"
    /\ IF camera_frame = "" /\ info_msg = None
       THEN /\ frame' = [frame EXCEPT ![w].outcome = "raised"]
            /\ executor' = IF executor = "dead" THEN "dead" ELSE "raising"
            /\ Goto(w, "ret")
       ELSE /\ frame' = [frame EXCEPT ![w].frame_id =
                           IF camera_frame = "" THEN Get(info_msg).frame_id
                                                ELSE camera_frame]
            /\ Goto(w, "img_detect")
            /\ UNCHANGED executor
    /\ UNCHANGED <<cfg_vars, node_vars, mw_vars, env_vars, aux_vars>>

\* image_callback that publishes whether or not marker_ids is None.
ImgDetect_always(w) ==
    /\ pc[w] = "img_detect"
    /\ LET im  == Get(frame[w].msg).image
           ids == DetectIds(im)
       IN  /\ frame' = [frame EXCEPT ![w].corners = DetectCorners(im),
                                     ![w].marker_ids = ids,
                                     ![w].i = 1,
                                     ![w].outcome = IF ids = None THEN "empty" ELSE @]
           /\ Goto(w, IF ids = None THEN "img_pub_poses" ELSE "img_loop")
    /\ UNCHANGED <<cfg_vars, node_vars, mw_vars, executor, env_vars, aux_vars>>

\* corners, marker_ids, rejected = detectMarkers(...); if marker_ids is not None
ImgDetect(w) ==
    /\ pc[w] = "img_detect"
    /\ LET im  == Get(frame[w].msg).image
           ids == DetectIds(im)
       IN  /\ frame' = [frame EXCEPT ![w].corners = DetectCorners(im),
                                     ![w].marker_ids = ids,
                                     ![w].i = 1,
                                     ![w].outcome = IF ids = None THEN "empty" ELSE @]
           /\ Goto(w, IF ids = None THEN "ret" ELSE "img_loop")
    /\ UNCHANGED <<cfg_vars, node_vars, mw_vars, executor, env_vars, aux_vars>>

\* A loop body that puts each id in front of the ids collected so far.
ImgMarker_prepend(w) ==
    /\ pc[w] = "img_loop"
    /\ LET f      == frame[w]
           i      == f.i
           id     == Get(f.marker_ids)[i]
           size   == get_marker_size(id)
       IN  IF EstimateRaises(f.corners[i], intrinsic_mat, distortion)
           THEN /\ frame' = [frame EXCEPT ![w].outcome = "raised"]
                /\ executor' = IF executor = "dead" THEN "dead" ELSE "raising"
                /\ Goto(w, "ret")
           ELSE /\ frame' = [frame EXCEPT
                      ![w].poses = Append(@, EstimatePose(f.corners[i], size,
                                                          intrinsic_mat, distortion)),
                      ![w].ids = <<id>> \o @,
                      ![w].i = i + 1]
                /\ Goto(w, IF i = Len(Get(f.marker_ids)) THEN "img_pub_poses"
                                                          ELSE "img_loop")
                /\ UNCHANGED executor
    /\ UNCHANGED <<cfg_vars, node_vars, mw_vars, env_vars, aux_vars>>

\* One turn of the loop over marker_ids: resolve the size, estimate the
\* pose, append it to both messages and the id to the marker message.  An
\* exception of the pose solve is not caught: it leaves the callback.
ImgMarker(w) ==
    /\ pc[w] = "img_loop"
    /\ LET f      == frame[w]
           i      == f.i
           id     == Get(f.marker_ids)[i]
           size   == get_marker_size(id)
       IN  IF EstimateRaises(f.corners[i], intrinsic_mat, distortion)
           THEN /\ frame' = [frame EXCEPT ![w].outcome = "raised"]
                /\ executor' = IF executor = "dead" THEN "dead" ELSE "raising"
                /\ Goto(w, "ret")
           ELSE /\ frame' = [frame EXCEPT
                      ![w].poses = Append(@, EstimatePose(f.corners[i], size,
                                                          intrinsic_mat, distortion)),
                      ![w].ids = Append(@, id),
                      ![w].i = i + 1]
                /\ Goto(w, IF i = Len(Get(f.marker_ids)) THEN "img_pub_poses"
                                                          ELSE "img_loop")
                /\ UNCHANGED executor
    /\ UNCHANGED <<cfg_vars, node_vars, mw_vars, env_vars, aux_vars>>

\* self.poses_pub.publish(pose_array)
ImgPublishPoses(w) ==
    /\ pc[w] = "img_pub_poses"
    /\ poses_pub' = [count |-> poses_pub.count + 1,
                     last |-> Some([stamp |-> Get(frame[w].msg).stamp,
                                    frame_id |-> frame[w].frame_id,
                                    poses |-> frame[w].poses])]
    /\ Goto(w, "img_pub_markers")
    /\ UNCHANGED <<cfg_vars, node_vars, info_sub, subs, markers_pub, warned, executor,
                   frame, env_vars, aux_vars>>

\* self.markers_pub.publish(markers)
ImgPublishMarkers(w) ==
    /\ pc[w] = "img_pub_markers"
    /\ markers_pub' = [count |-> markers_pub.count + 1,
                       last |-> Some([stamp |-> Get(frame[w].msg).stamp,
                                      frame_id |-> frame[w].frame_id,
                                      poses |-> frame[w].poses,
                                      marker_ids |-> frame[w].ids])]
    /\ frame' = [frame EXCEPT ![w].outcome = "published"]
    /\ Goto(w, "ret")
    /\ UNCHANGED <<cfg_vars, node_vars, info_sub, subs, poses_pub, warned, executor,
                   env_vars, aux_vars>>

\* ----------------------------------------------------------------- Next
Next ==
    \/ \E c \in CalMsgs : InfoArrives(c)
    \/ \E im \in camera.scene : ImageArrives(im)
    \/ \E w \in Workers :
          \/ BeginInfo(w)
          \/ \E s \in 1..Len(subs) : BeginImage(w, s)
          \/ BeginStart(w)
          \/ BeginStop(w)
          \/ EndExecution(w)
          \/ InfoStore(w) \/ InfoIntrinsic(w) \/ InfoDistortion(w) \/ InfoDestroy(w)
          \/ ImgCheck(w) \/ ImgHeader(w) \/ ImgDetect(w) \/ ImgMarker(w)
          \/ ImgPublishPoses(w) \/ ImgPublishMarkers(w)
          \/ StartCheck(w) \/ StartSubscribe(w) \/ StartActivate(w)
          \/ StopDeactivate(w) \/ StopDestroy(w)
    \/ SpinRaise

Spec == Init /\ [][Next]_vars

\* One frame of any content: the specification for what a frame publishes.
InitFrame ==
    /\ InitNode
    /\ camera = [frames |-> 1, calib |-> 1, scene |-> Images]

SpecFrame == InitFrame /\ [][Next]_vars

\* Two frames and two calibration messages under either setting of
\* camera_frame: the specification for the headers of what is published.
InitLabel ==
    /\ InitNode
    /\ marker_map = [i \in {7} |-> 1000]
    /\ camera = [frames |-> MaxFrames, calib |-> MaxCalib, scene |-> PlainImages]

SpecLabel == InitLabel /\ [][Next]_vars

\* ArucoNode(): __init__ from the parameters to the last field.  The
\* marker_map parameter is read first; an exception there or at line 193
\* leaves main() before the node is added to the executor.
Construct ==
    /\ boot.phase = "init"
    /\ LET mm   == ParseMarkerMap(boot.marker_map_param)
           dict == boot.dictionary
           fail == mm.raised \/ DictionaryRaises(dict)
           errs == mm.errors + IF mm.raised THEN 0 ELSE DictionaryErrors(dict)
       IN  /\ boot' = [boot EXCEPT !.phase = IF fail THEN "crashed" ELSE "running",
                                   !.errors = errs]
           /\ marker_map' = IF mm.raised THEN marker_map ELSE mm.map
           /\ info_sub' = IF fail THEN info_sub ELSE NewSub
    /\ UNCHANGED <<marker_size, camera_frame, node_vars, subs, poses_pub,
                   markers_pub, warned, exec_vars, env_vars, aux_vars>>

\* The state before ArucoNode() is called, for each value of the
\* marker_map and aruco_dictionary_id parameters: no subscription yet.
InitCtor ==
    /\ marker_size = DefaultMarkerSize
    /\ marker_map = <<>>
    /\ camera_frame = ""
    /\ boot \in [phase : {"init"}, marker_map_param : MarkerMapParams,
                  dictionary : DictionaryNames, errors : {0}]
    /\ active = FALSE
    /\ img_sub = 0
    /\ info_msg = None /\ intrinsic_mat = None /\ distortion = None
    /\ info_sub = DeadSub
    /\ subs = <<>>
    /\ poses_pub = [count |-> 0, last |-> None]
    /\ markers_pub = [count |-> 0, last |-> None]
    /\ warned = 0
    /\ executor = "spinning"
    /\ pc = [w \in Workers |-> "idle"]
    /\ frame = [w \in Workers |-> NoFrame]
    /\ stamp = 0
    /\ calib_sent = <<>>
    /\ writes = [info_msg |-> 0, intrinsic_mat |-> 0, distortion |-> 0]
    /\ arrived_idle = {}
    /\ ctl_hist = <<[op |-> "none", active |-> FALSE, img_sub |-> 0, live |-> {}],
                    [op |-> "init", active |-> FALSE, img_sub |-> 0, live |-> {}]>>
    /\ camera = [frames |-> 1, calib |-> 1, scene |-> PlainImages]

NextCtor == Construct \/ Next

\* main() from rclpy.init: construction, then the executor.
SpecCtor == InitCtor /\ [][NextCtor]_vars

\* ======================================================================
\* Properties
\* ======================================================================
AllIdle == \A w \in Workers : pc[w] = "idle"

\* A stop() has returned and no start() has begun since.
Stopped == ctl_hist[2].op = "stop" /\ \A w \in Workers : ~Running(w, "start")

\* C1: once stop() has returned and until the next start() begins, no
\* worker is inside image_callback: it is not entered, and no frame taken
\* before the stop is still being processed or published.
C1_StopQuiesces == Stopped => \A w \in Workers : ~Running(w, "image")

\* C1 witness: frames were published, stop() returned, and a frame has
\* been sent by the camera since.
C1_Witness ==
    /\ Stopped /\ AllIdle
    /\ markers_pub.count > 0
    /\ stamp \in arrived_idle
    /\ Get(markers_pub.last).stamp < stamp

\* The calibration fields hold exactly what info_callback derives from c.
StoredFrom(c) ==
    /\ info_msg = Some(c)
    /\ intrinsic_mat = Some(Reshape3x3(c.k))
    /\ distortion = Some(c.d)

\* C2: whatever calibration messages follow the first, each calibration
\* field is either still unset or holds the value of the first message
\* sent; once info_callback has finished, all three are set from it.
C2_OneShotCalibration ==
    /\ info_msg # None => info_msg = Some(calib_sent[1])
    /\ intrinsic_mat # None => intrinsic_mat = Some(Reshape3x3(calib_sent[1].k))
    /\ distortion # None => distortion = Some(calib_sent[1].d)
    /\ ~info_sub.live /\ AllIdle => StoredFrom(calib_sent[1])

\* C2 witness: two different messages were sent one after the other, both
\* have been dealt with, and the store holds the first.
C2_Witness ==
    /\ Len(calib_sent) >= 2 /\ calib_sent[1] # calib_sent[2]
    /\ AllIdle /\ ~info_sub.live
    /\ StoredFrom(calib_sent[1])

\* C3: with calibration messages waiting on info_sub while info_callback
\* runs, no calibration field is assigned more than once, and outside
\* info_callback the three fields come from one and the same message.
C3_SingleCalibrationWrite ==
    /\ writes.info_msg <= 1 /\ writes.intrinsic_mat <= 1 /\ writes.distortion <= 1
    /\ (\A w \in Workers : ~Running(w, "info")) /\ info_msg # None
          => StoredFrom(Get(info_msg))

\* C3 witness: info_callback has written all three fields for one message
\* while a different message is waiting on info_sub.
C3_Witness ==
    \E w \in Workers :
        /\ pc[w] = "info_destroy"
        /\ info_sub.queue # <<>>
        /\ Head(info_sub.queue) # Get(info_msg)
        /\ StoredFrom(Get(info_msg))
        /\ writes = [info_msg |-> 1, intrinsic_mat |-> 1, distortion |-> 1]

\* C4: a frame the camera sent while the node was Idle is never waiting on
\* a subscription, never inside image_callback and never published.
C4_IdleDrop ==
    /\ \A s \in 1..Len(subs) : \A i \in 1..Len(subs[s].queue) :
           subs[s].queue[i].stamp \notin arrived_idle
    /\ \A w \in Workers :
           Running(w, "image") => Get(frame[w].msg).stamp \notin arrived_idle
    /\ poses_pub.last # None => Get(poses_pub.last).stamp \notin arrived_idle
    /\ markers_pub.last # None => Get(markers_pub.last).stamp \notin arrived_idle

\* C4 witness: a frame was sent while Idle, the node was started later and
\* a later frame was published.
C4_Witness ==
    /\ arrived_idle # {}
    /\ markers_pub.last # None
    /\ \E t \in arrived_idle : t < Get(markers_pub.last).stamp

\* The frame a worker is handling has passed the readiness check.
PastCheck(w) ==
    pc[w] \in {"img_header", "img_detect", "img_loop", "img_pub_poses",
               "img_pub_markers"}

\* C5 (states): nothing is published and no frame gets past the check
\* before a calibration is stored; a frame is skipped only while none is
\* stored, and every skip is one warning.
C5_SkipStates ==
    /\ info_msg = None => poses_pub.count = 0 /\ markers_pub.count = 0
    /\ \A w \in Workers : PastCheck(w) => info_msg # None
    /\ \A w \in Workers : frame[w].outcome = "skipped" => info_msg = None /\ pc[w] = "ret"
    /\ info_msg # None => \A w \in Workers : frame[w].outcome # "skipped"

\* C5 (steps): the readiness check returns at once when no calibration is
\* stored, changing no field, subscription or publisher, and goes on to
\* process the frame otherwise.
C5_SkipStep ==
    \A w \in Workers :
        pc[w] = "img_check" /\ pc'[w] # "img_check" =>
            IF info_msg = None
            THEN /\ pc'[w] = "ret"
                 /\ UNCHANGED <<node_vars, info_sub, subs, poses_pub, markers_pub,
                                executor>>
            ELSE pc'[w] = "img_header" /\ warned' = warned

\* C5: a frame handled before any calibration is stored publishes nothing
\* and changes no node state; a frame handled afterwards is processed,
\* however many were skipped before.
C5_NotReadySkip == []C5_SkipStates /\ [][C5_SkipStep]_vars

\* C5 witness: a frame was skipped for want of calibration and a later
\* frame has been published.
C5_Witness == warned >= 1 /\ markers_pub.count >= 1 /\ AllIdle

\* The markers of the frame worker w handles whose pose solve fails.
Failing(w) == {i \in 1..Len(frame[w].corners) : frame[w].corners[i].geom = "malformed"}

\* Worker w has finished a frame with N detected markers of which K fail.
PartialFailure(w) ==
    /\ Running(w, "image") /\ pc[w] = "ret"
    /\ frame[w].marker_ids # None
    /\ 0 < Cardinality(Failing(w))
    /\ Cardinality(Failing(w)) < Len(frame[w].corners)

\* C6: a frame with N detected markers of which K fail the pose solve,
\* 0 < K < N, ends with a pose batch and a marker batch for that frame, each
\* holding the N - K other markers in the same order.
C6_PartialFailure ==
    \A w \in Workers : PartialFailure(w) =>
        LET ok == Len(frame[w].corners) - Cardinality(Failing(w))
        IN  /\ frame[w].outcome = "published"
            /\ poses_pub.last # None /\ markers_pub.last # None
            /\ Get(poses_pub.last).stamp = Get(frame[w].msg).stamp
            /\ Get(markers_pub.last).stamp = Get(frame[w].msg).stamp
            /\ Len(Get(poses_pub.last).poses) = ok
            /\ Len(Get(markers_pub.last).poses) = ok
            /\ Len(Get(markers_pub.last).marker_ids) = ok
            /\ Get(markers_pub.last).poses = Get(poses_pub.last).poses

\* C7: a frame in which the detector reports no marker never reaches the
\* loop or a publish call, and no published batch is ever empty.
C7_NoDetections ==
    /\ \A w \in Workers :
          Running(w, "image") /\ Get(frame[w].msg).image = <<>> =>
              /\ pc[w] \notin {"img_loop", "img_pub_poses", "img_pub_markers"}
              /\ frame[w].outcome # "published"
    /\ poses_pub.last # None => Get(poses_pub.last).poses # <<>>
    /\ markers_pub.last # None =>
          Get(markers_pub.last).poses # <<>> /\ Get(markers_pub.last).marker_ids # <<>>

\* C7 witness: with the calibration stored, a frame without markers has
\* been through detection and has returned with nothing published.
C7_Witness ==
    \E w \in Workers :
        /\ frame[w].outcome = "empty" /\ pc[w] = "ret"
        /\ info_msg # None
        /\ poses_pub.count = 0 /\ markers_pub.count = 0

\* C8: outside the two publish calls both publishers have published the
\* same number of batches, and the latest of each agree in stamp, frame
\* label and poses; a marker batch has one id per pose, and the i-th id is
\* the id of the detected marker whose corners gave the i-th pose.
C8_ParallelBatches ==
    /\ (\A w \in Workers : pc[w] # "img_pub_markers") =>
          /\ poses_pub.count = markers_pub.count
          /\ (poses_pub.last = None) = (markers_pub.last = None)
          /\ poses_pub.last # None =>
                /\ Get(poses_pub.last).stamp = Get(markers_pub.last).stamp
                /\ Get(poses_pub.last).frame_id = Get(markers_pub.last).frame_id
                /\ Get(poses_pub.last).poses = Get(markers_pub.last).poses
    /\ markers_pub.last # None =>
          Len(Get(markers_pub.last).marker_ids) = Len(Get(markers_pub.last).poses)
    /\ \A w \in Workers : frame[w].outcome = "published" =>
          LET m == Get(markers_pub.last)
          IN  /\ m.stamp = Get(frame[w].msg).stamp
              /\ \A j \in 1..Len(m.poses) :
                     m.marker_ids[j] = Get(frame[w].marker_ids)[m.poses[j].corners.at]

\* C8 witness: a frame with two markers of different ids has been published.
C8_Witness ==
    \E w \in Workers :
        /\ frame[w].outcome = "published"
        /\ Len(Get(markers_pub.last).marker_ids) = 2
        /\ Get(markers_pub.last).marker_ids[1] # Get(markers_pub.last).marker_ids[2]

\* C9: a completed start() leaves the node active with exactly the
\* subscription img_sub refers to alive, a completed stop() leaves it
\* inactive with no image subscription alive; a start() right after a
\* start(), a stop() right after a stop() and a stop() before any start()
\* leave the activation state as it was.
C9_Idempotence ==
    LET prev == ctl_hist[1]
        last == ctl_hist[2]
        same == /\ prev.active = last.active
                /\ prev.img_sub = last.img_sub
                /\ prev.live = last.live
    IN  /\ last.op = "start" => last.active /\ last.live = {last.img_sub}
        /\ last.op = "stop" => ~last.active /\ last.live = {}
        /\ last.op = "start" /\ prev.op = "start" => same
        /\ last.op = "stop" /\ prev.op \in {"stop", "init"} => same

\* C9 witness: start() and then two stop() calls in a row, the second of
\* them with img_sub still referring to the destroyed subscription.
C9_Witness ==
    /\ ctl_hist[1].op = "stop" /\ ctl_hist[2].op = "stop"
    /\ img_sub # 0 /\ ~subs[img_sub].live
    /\ AllIdle

\* The size the table and the default give for marker id i.
Resolved(i) == IF i \in DOMAIN marker_map THEN marker_map[i] ELSE marker_size

\* C10: every pose, collected or published, was estimated with the size
\* the override table gives for its marker id, or with marker_size when the
\* table has no entry for it.
C10_SizeResolution ==
    /\ \A w \in Workers : \A j \in 1..Len(frame[w].poses) :
           frame[w].poses[j].size =
               Resolved(Get(frame[w].marker_ids)[frame[w].poses[j].corners.at])
    /\ markers_pub.last # None =>
           \A j \in 1..Len(Get(markers_pub.last).poses) :
               Get(markers_pub.last).poses[j].size =
                   Resolved(Get(markers_pub.last).marker_ids[j])

\* C10 witness: a published frame with a marker whose id has an override
\* different from the default and a marker whose id has none.
C10_Witness ==
    /\ markers_pub.last # None
    /\ \E j, k \in 1..Len(Get(markers_pub.last).poses) :
          LET m == Get(markers_pub.last)
          IN  /\ m.marker_ids[j] \in DOMAIN marker_map
              /\ m.poses[j].size = marker_map[m.marker_ids[j]]
              /\ m.poses[j].size # marker_size
              /\ m.marker_ids[k] \notin DOMAIN marker_map
              /\ m.poses[k].size = marker_size

\* The marker_map parameter is no well-formed mapping from integer-like
\* keys to sizes.
MalformedMap(param) ==
    \/ param.kind # "json_object"
    \/ \E n \in 1..Len(param.entries) : ~IsIntText(param.entries[n].key)

\* C11: with a marker_map parameter that is no well-formed mapping (unset,
\* not JSON, JSON but no object, an object with a non-integer key),
\* construction reports an error, completes and leaves marker_map empty.
C11_MalformedMapTolerated ==
    (/\ boot.phase # "init"
     /\ MalformedMap(boot.marker_map_param)
     /\ DictionaryKnown(boot.dictionary))
        => /\ boot.phase = "running"
           /\ boot.errors >= 1
           /\ marker_map = <<>>

\* C12: with an aruco_dictionary_id that names no predefined dictionary,
\* construction reports the error and still completes, and no batch is
\* ever published afterwards.
C12_BadDictionaryTolerated ==
    (/\ boot.phase # "init"
     /\ ~DictionaryKnown(boot.dictionary)
     /\ ~ParseMarkerMap(boot.marker_map_param).raised)
        => /\ boot.phase = "running"
           /\ boot.errors >= 1
           /\ poses_pub.count = 0 /\ markers_pub.count = 0

\* C13: whenever no info_callback is running (every state another callback
\* can observe), intrinsic_mat and distortion are both unset or both set
\* from the stored message; and when image_callback is past its readiness
\* check and estimating poses, both are set.
C13_CalibrationPair ==
    /\ (\A w \in Workers : ~Running(w, "info")) =>
          /\ intrinsic_mat = None <=> distortion = None
          /\ intrinsic_mat # None =>
                /\ info_msg # None
                /\ intrinsic_mat = Some(Reshape3x3(Get(info_msg).k))
                /\ distortion = Some(Get(info_msg).d)
    /\ \A w \in Workers :
          pc[w] \in {"img_header", "img_detect", "img_loop"} =>
              intrinsic_mat # None /\ distortion # None

\* C13 witness: image_callback is about to estimate a pose with the
\* calibration of a message whose distortion vector is empty.
C13_Witness ==
    \E w \in Workers :
        /\ pc[w] = "img_loop"
        /\ intrinsic_mat = Some(Reshape3x3(CalB.k)) /\ distortion = Some(CalB.d)

\* The liveness of every image subscription created so far.
Liveness(sb) == [s \in 1..Len(sb) |-> sb[s].live]

\* Worker w takes a step of (or into) handler h.
StepOf(w, h) == pc'[w] # pc[w] /\ (Running(w, h) \/ frame'[w].handler = h)

\* C16: a step of info_callback or image_callback leaves the active flag,
\* img_sub and the set of live image subscriptions as they were, and every
\* step that changes one of them is a step of start() or stop().
C16_ActivationFrame ==
    [][/\ (\E w \in Workers : StepOf(w, "info") \/ StepOf(w, "image")) =>
              /\ active' = active /\ img_sub' = img_sub
              /\ Liveness(subs') = Liveness(subs)
       /\ (active' # active \/ img_sub' # img_sub \/ Liveness(subs') # Liveness(subs)) =>
              \E w \in Workers : StepOf(w, "start") \/ StepOf(w, "stop")]_vars

\* C16 witness: while Active, info_callback has run to its end and
\* image_callback has published, and the activation state is intact.
C16_Witness ==
    /\ active /\ LiveSubs = {img_sub}
    /\ ~info_sub.live /\ info_msg # None
    /\ markers_pub.count > 0
    /\ AllIdle

\* C18: there is never more than one live image subscription, and whenever
\* no start() or stop() is in progress the node is active exactly when
\* there is one, the one img_sub refers to.
C18_OneLiveSubscription ==
    /\ Cardinality(LiveSubs) <= 1
    /\ (\A w \in Workers : ~Running(w, "start") /\ ~Running(w, "stop")) =>
          /\ active <=> Cardinality(LiveSubs) = 1
          /\ active => LiveSubs = {img_sub}

\* C18 witness: the node was started, stopped and started again; the one
\* live subscription is that of the second activation.
C18_Witness ==
    /\ active /\ AllIdle
    /\ Len(subs) >= 2 /\ LiveSubs = {img_sub} /\ img_sub = Len(subs)

\* The header image_callback is to give the batches of worker w's frame.
ExpectedHeader(w) ==
    [stamp |-> Get(frame[w].msg).stamp,
     frame_id |-> IF camera_frame # "" THEN camera_frame ELSE Get(info_msg).frame_id]

HeaderOf(batch) == [stamp |-> batch.stamp, frame_id |-> batch.frame_id]

\* C14: a published batch carries camera_frame as its frame label when that
\* is non-empty and the stored calibration's frame_id otherwise, and the
\* stamp of the frame it was computed from; pose batch and marker batch alike.
C14_BatchHeader ==
    \A w \in Workers :
        /\ pc[w] = "img_pub_markers" =>
              HeaderOf(Get(poses_pub.last)) = ExpectedHeader(w)
        /\ (pc[w] = "ret" /\ frame[w].outcome = "published") =>
              /\ HeaderOf(Get(poses_pub.last)) = ExpectedHeader(w)
              /\ HeaderOf(Get(markers_pub.last)) = ExpectedHeader(w)

\* C14 witness: with camera_frame empty, the batches of the first frame are
\* out, labelled with the frame of the first calibration message, while a
\* second message with another frame was sent and a second frame has come.
C14_Witness ==
    \E w \in Workers :
        /\ pc[w] = "ret" /\ frame[w].outcome = "published"
        /\ camera_frame = ""
        /\ Len(calib_sent) >= 2
        /\ calib_sent[2].frame_id # Get(markers_pub.last).frame_id
        /\ Get(markers_pub.last).stamp < stamp

\* Frame m, handled now, ends in a non-empty batch: the calibration is
\* stored, the detector reports a marker, every estimation succeeds.
Publishable(m) ==
    /\ info_msg # None /\ intrinsic_mat # None /\ distortion # None
    /\ Len(m.image) >= 1
    /\ \A i \in 1..Len(m.image) : m.image[i].geom = "good"

\* The marker batch of frame m as a function of the frame, the stored
\* calibration, the size table with its default, and camera_frame.
BatchOf(m) ==
    [stamp |-> m.stamp,
     frame_id |-> IF camera_frame # "" THEN camera_frame ELSE Get(info_msg).frame_id,
     poses |-> [i \in 1..Len(m.image) |->
                  EstimatePose(DetectCorners(m.image)[i],
                               get_marker_size(m.image[i].id),
                               intrinsic_mat, distortion)],
     marker_ids |-> [i \in 1..Len(m.image) |-> m.image[i].id]]

\* What a frame publishes is BatchOf the frame.
PublishedIsBatchOf ==
    \A w \in Workers :
        (pc[w] = "ret" /\ frame[w].outcome = "published") =>
            LET b == BatchOf(Get(frame[w].msg))
            IN  /\ Get(markers_pub.last) = b
                /\ Get(poses_pub.last) =
                      [stamp |-> b.stamp, frame_id |-> b.frame_id, poses |-> b.poses]

\* C15: the batches of a frame are BatchOf the frame whatever frames came
\* before it: what is published equals BatchOf, and a frame with a
\* non-empty BatchOf that waits on a live subscription is not kept from
\* being handled by what an earlier frame did.
C15_FrameIndependence ==
    /\ PublishedIsBatchOf
    /\ \A s \in LiveSubs : \A n \in 1..Len(subs[s].queue) :
          Publishable(subs[s].queue[n]) => executor # "dead"

\* The last control call to return was start(), and none is running.
Restarted ==
    /\ ctl_hist[2].op = "start"
    /\ \A w \in Workers : ~Running(w, "start") /\ ~Running(w, "stop")

\* C19: once a sequence of start() and stop() calls has ended with
\* start(), the node is active with the newest image subscription live and
\* referred to by img_sub, and a frame that has arrived on it since is
\* taken up by the executor.
C19_RestartProcesses ==
    Restarted =>
        /\ active /\ img_sub = Len(subs) /\ LiveSubs = {img_sub}
        /\ (AllIdle /\ subs[img_sub].queue # <<>>) => executor = "spinning"

\* C20: while the node is active with the calibration stored and no
\* callback running, a worker can take up a waiting frame in which every
\* marker can be estimated; and the pose batches and marker batches
\* published pair up one to one, the pose batch first.
C20_Response ==
    /\ \A s \in LiveSubs :
          (/\ active /\ AllIdle
           /\ subs[s].queue # <<>> /\ Publishable(Head(subs[s].queue)))
              => ENABLED (\E w \in Workers : BeginImage(w, s))
    /\ poses_pub.count = markers_pub.count
          + Cardinality({w \in Workers : pc[w] = "img_pub_markers"})

====
